---- MODULE Spec2Model ----
(***************************************************************************)
(* Byte Pair Encoding tokenizer (package bpe, tokenizer.go).               *)
(*                                                                         *)
(* The tokenizer owns Vocabulary, Merges and VocabSize.  Train is split at *)
(* the head of its loop, so that the points between merge steps are        *)
(* states; Encode and Decode are single steps.  A call ends in a state     *)
(* with pc = "done" that shows its arguments, locals and result; the       *)
(* caller then either passes the tokens of Encode on to Decode or drops    *)
(* them (Return).  The map iteration order of findMaxPair is unspecified   *)
(* in Go: every pair of maximal count is a possible result.                *)
(***************************************************************************)
EXTENDS Integers, Sequences, FiniteSets, TLC

VARIABLES
    Vocabulary,       \* Tokenizer.Vocabulary : map[int][]byte
    Merges,           \* Tokenizer.Merges     : []Merge
    VocabSize,        \* Tokenizer.VocabSize  : int
    pc,               \* "idle", "loop" (in Train, at the loop head) or "done"
    op,               \* the operation of the current or last call
    text,             \* Train: argument text
    targetVocabSize,  \* Train: argument targetVocabSize
    tokens,           \* Train: local tokens
    pairCounts,       \* Train: local pairCounts
    err,              \* value returned by the last Train call
    entryVocabSize,   \* history: VocabSize when the last Train call began
    encodeIn,         \* Encode: argument text
    encodeOut,        \* Encode: returned tokens
    decodeIn,         \* Decode: argument tokens
    decodeOut,        \* Decode: returned bytes
    applierIn,        \* arguments of a direct call of the two merge appliers
    applierOut        \* what the two merge appliers returned for applierIn

tokenizer == <<Vocabulary, Merges, VocabSize>>
trainLocals == <<text, targetVocabSize, tokens, pairCounts, err, entryVocabSize>>
callResults == <<encodeIn, encodeOut, decodeIn, decodeOut>>
applier == <<applierIn, applierOut>>
vars == <<Vocabulary, Merges, VocabSize, pc, op, text, targetVocabSize, tokens,
          pairCounts, err, entryVocabSize, encodeIn, encodeOut, decodeIn,
          decodeOut, applierIn, applierOut>>

----------------------------------------------------------------------------
(* Bounds of the model *)

\* longest enumerated input text
MaxLen == 3
\* largest target vocabulary size passed to Train
MaxTarget == 259
\* longest enumerated Decode argument
MaxDecodeLen == 2

\* number of single-byte token ids
NumBytes == 256
\* the id used by TestDecodeInvalidToken
InvalidToken == 999999

\* byte values the enumerated texts are made of ('a', 'b')
Alphabet == {97, 98}

SeqsUpTo(S, n) == UNION { [1..k -> S] : k \in 0..n }

\* texts in which occurrences of a pair overlap or touch: "aaaa", "aaaaa",
\* "abab"
RepetitiveTexts == { <<97, 97, 97, 97>>, <<97, 97, 97, 97, 97>>,
                     <<97, 98, 97, 98>> }

Texts == SeqsUpTo(Alphabet, MaxLen) \cup RepetitiveTexts

TooSmallTarget == 100
\* targets: the two rejected by TestTargetVocabSizeTooSmall and the valid ones
Targets == {TooSmallTarget, NumBytes} \cup ((NumBytes + 1)..MaxTarget)

DecodeArgs == SeqsUpTo({97, 98, NumBytes, NumBytes + 1, InvalidToken}, MaxDecodeLen)

\* the texts and targets of the tests: "aaabdaaabac" to 260 (TestTrainSimple),
\* "aaa" to 258 (TestMergeOrder), "a" (TestSingleByte), "ababababab"
\* (TestRepeatedPattern), "test" to 256 and 100 (TestTargetVocabSizeTooSmall)
TrainSimpleText == <<97, 97, 97, 98, 100, 97, 97, 97, 98, 97, 99>>
TrainSimpleTarget == 260
MergeOrderText == <<97, 97, 97>>
MergeOrderTarget == 258
TestTexts == { TrainSimpleText, MergeOrderText, <<97>>,
               <<97, 98, 97, 98, 97, 98, 97, 98, 97, 98>>,
               <<116, 101, 115, 116>> }
TestTargets == { TrainSimpleTarget, MergeOrderTarget, NumBytes, TooSmallTarget }

\* arguments of the direct calls of the merge appliers
ApplierIds == {97, 98, NumBytes}
ApplierArgs ==
    { [tokens |-> toks, first |-> f, second |-> s, merged |-> g, pairCounts |-> m] :
        toks \in SeqsUpTo(ApplierIds, MaxLen), f \in ApplierIds, s \in ApplierIds,
        g \in {98, NumBytes + 1}, m \in {"counted", "empty"} }

----------------------------------------------------------------------------
(* Helpers for Go values *)

\* a map read: the zero value for a missing key
Get(m, k) == IF k \in DOMAIN m THEN m[k] ELSE 0

\* m[k] = v
Put(m, k, v) == [x \in DOMAIN m \cup {k} |-> IF x = k THEN v ELSE m[x]]

\* delete(m, k)
Delete(m, k) == [x \in DOMAIN m \ {k} |-> m[x]]

\* make(map[[2]int]int)
EmptyMap == [x \in {} |-> 0]

\* the token slice made one element too short
BytesToTokensShort(b) == [i \in 1..(Len(b) - 1) |-> b[i]]

\* tokens[i] = int(b) for every byte of the text
BytesToTokens(b) == [i \in 1..Len(b) |-> b[i]]

----------------------------------------------------------------------------
(* Pair-frequency engine *)

\* pairCounts[pair]++
incrementPair(m, pair) == Put(m, pair, Get(m, pair) + 1)

\* decrementPair without the delete: a count of zero stays in the map
decrementPairKeepZero(m, pair) == Put(m, pair, Get(m, pair) - 1)

decrementPair(m, pair) ==
    LET c == Get(m, pair) - 1
    IN  IF c <= 0 THEN Delete(m, pair) ELSE Put(m, pair, c)

\* the loop of countPairs stopping one pair early
RECURSIVE countPairsFromShort(_, _, _)
countPairsFromShort(toks, i, m) ==
    IF i < Len(toks) - 1
    THEN countPairsFromShort(toks, i + 1,
                             incrementPair(m, <<toks[i], toks[i + 1]>>))
    ELSE m

RECURSIVE countPairsFrom(_, _, _)
countPairsFrom(toks, i, m) ==
    IF i < Len(toks)
    THEN countPairsFrom(toks, i + 1, incrementPair(m, <<toks[i], toks[i + 1]>>))
    ELSE m

countPairs(toks) == countPairsFrom(toks, 1, EmptyMap)

\* findMaxPair with maxCount starting at 1: a pair that occurs once is never
\* returned
findMaxPairAboveOne(m) ==
    LET positive == {p \in DOMAIN m : m[p] > 1}
    IN  IF positive = {}
        THEN { [pair |-> <<0, 0>>, count |-> 0] }
        ELSE { [pair |-> p, count |-> m[p]] :
                 p \in {q \in positive : \A r \in positive : m[r] <= m[q]} }

\* findMaxPair that keeps the last pair of the scan with a positive count,
\* whatever its count
findMaxPairAny(m) ==
    LET positive == {p \in DOMAIN m : m[p] > 0}
    IN  IF positive = {}
        THEN { [pair |-> <<0, 0>>, count |-> 0] }
        ELSE { [pair |-> p, count |-> m[p]] : p \in positive }

\* findMaxPair with the comparison turned round: it keeps a pair of least
\* positive count
findMaxPairLeast(m) ==
    LET positive == {p \in DOMAIN m : m[p] > 0}
    IN  IF positive = {}
        THEN { [pair |-> <<0, 0>>, count |-> 0] }
        ELSE { [pair |-> p, count |-> m[p]] :
                 p \in {q \in positive : \A r \in positive : m[q] <= m[r]} }

\* the results findMaxPair can return: the scan keeps the first pair whose
\* count exceeds every count seen before it, and the order of the scan is
\* any order of the keys
findMaxPair(m) ==
    LET positive == {p \in DOMAIN m : m[p] > 0}
    IN  IF positive = {}
        THEN { [pair |-> <<0, 0>>, count |-> 0] }
        ELSE { [pair |-> p, count |-> m[p]] :
                 p \in {q \in positive : \A r \in positive : m[r] <= m[q]} }

\* the scan of applyMergeIncremental advancing by one token after a merge
RECURSIVE mergeIncrementalFromOverlapping(_, _, _, _, _, _, _, _)
mergeIncrementalFromOverlapping(toks, first, second, merged, i, result, m, under) ==
    IF i > Len(toks)
    THEN [tokens |-> result, pairCounts |-> m, underflow |-> under]
    ELSE IF i < Len(toks) /\ toks[i] = first /\ toks[i + 1] = second
    THEN LET m1 == IF Len(result) > 0
                   THEN incrementPair(
                            decrementPair(m, <<result[Len(result)], first>>),
                            <<result[Len(result)], merged>>)
                   ELSE m
             m2 == decrementPair(m1, <<first, second>>)
             m3 == IF i + 2 <= Len(toks)
                   THEN incrementPair(
                            decrementPair(m2, <<second, toks[i + 2]>>),
                            <<merged, toks[i + 2]>>)
                   ELSE m2
         IN  mergeIncrementalFromOverlapping(toks, first, second, merged, i + 1,
                                             Append(result, merged), m3, under)
    ELSE mergeIncrementalFromOverlapping(toks, first, second, merged, i + 1,
                                         Append(result, toks[i]), m, under)

\* the loop of applyMergeIncremental from index i (1-based) on.  under
\* records whether a decrementPair of the scan was applied to a pair whose
\* count was below 1 (a missing key included); it has no effect on the rest.
RECURSIVE mergeIncrementalFrom(_, _, _, _, _, _, _, _)
mergeIncrementalFrom(toks, first, second, merged, i, result, m, under) ==
    IF i > Len(toks)
    THEN [tokens |-> result, pairCounts |-> m, underflow |-> under]
    ELSE IF i < Len(toks) /\ toks[i] = first /\ toks[i + 1] = second
    THEN LET left == <<result[Len(result)], first>>
             m1 == IF Len(result) > 0
                   THEN incrementPair(decrementPair(m, left),
                                      <<result[Len(result)], merged>>)
                   ELSE m
             u1 == Len(result) > 0 /\ Get(m, left) < 1
             m2 == decrementPair(m1, <<first, second>>)
             u2 == Get(m1, <<first, second>>) < 1
             right == <<second, toks[i + 2]>>
             m3 == IF i + 2 <= Len(toks)
                   THEN incrementPair(decrementPair(m2, right),
                                      <<merged, toks[i + 2]>>)
                   ELSE m2
             u3 == i + 2 <= Len(toks) /\ Get(m2, right) < 1
         IN  mergeIncrementalFrom(toks, first, second, merged, i + 2,
                                  Append(result, merged), m3,
                                  under \/ u1 \/ u2 \/ u3)
    ELSE mergeIncrementalFrom(toks, first, second, merged, i + 1,
                              Append(result, toks[i]), m, under)

applyMergeIncremental(toks, first, second, merged, m) ==
    mergeIncrementalFrom(toks, first, second, merged, 1, <<>>, m, FALSE)

----------------------------------------------------------------------------
(* Non-counting merge applier, Encode, Decode *)

\* the scan of applyMerge advancing by one token after a merge
RECURSIVE mergeFromOverlapping(_, _, _, _, _, _)
mergeFromOverlapping(toks, first, second, merged, i, result) ==
    IF i > Len(toks)
    THEN result
    ELSE IF i < Len(toks) /\ toks[i] = first /\ toks[i + 1] = second
    THEN mergeFromOverlapping(toks, first, second, merged, i + 1,
                              Append(result, merged))
    ELSE mergeFromOverlapping(toks, first, second, merged, i + 1,
                              Append(result, toks[i]))

RECURSIVE mergeFrom(_, _, _, _, _, _)
mergeFrom(toks, first, second, merged, i, result) ==
    IF i > Len(toks)
    THEN result
    ELSE IF i < Len(toks) /\ toks[i] = first /\ toks[i + 1] = second
    THEN mergeFrom(toks, first, second, merged, i + 2, Append(result, merged))
    ELSE mergeFrom(toks, first, second, merged, i + 1, Append(result, toks[i]))

applyMerge(toks, first, second, merged) ==
    mergeFrom(toks, first, second, merged, 1, <<>>)

\* Encode replaying the merge table from its last rule to its first
RECURSIVE encodeFromLast(_, _, _)
encodeFromLast(merges, k, toks) ==
    IF k > Len(merges)
    THEN toks
    ELSE encodeFromLast(merges, k + 1,
                        applyMerge(toks, merges[Len(merges) + 1 - k].First,
                                   merges[Len(merges) + 1 - k].Second,
                                   merges[Len(merges) + 1 - k].Result))

RECURSIVE encodeFrom(_, _, _)
encodeFrom(merges, k, toks) ==
    IF k > Len(merges)
    THEN toks
    ELSE encodeFrom(merges, k + 1,
                    applyMerge(toks, merges[k].First, merges[k].Second,
                               merges[k].Result))

EncodeWith(merges, b) == encodeFrom(merges, 1, BytesToTokens(b))

\* Decode that stops at the first id without a vocabulary entry
RECURSIVE decodeFromStopAtUnknown(_, _, _, _)
decodeFromStopAtUnknown(vocab, toks, k, result) ==
    IF k > Len(toks)
    THEN result
    ELSE IF toks[k] \in DOMAIN vocab
    THEN decodeFromStopAtUnknown(vocab, toks, k + 1, result \o vocab[toks[k]])
    ELSE result

RECURSIVE decodeFrom(_, _, _, _)
decodeFrom(vocab, toks, k, result) ==
    IF k > Len(toks)
    THEN result
    ELSE decodeFrom(vocab, toks, k + 1,
                    IF toks[k] \in DOMAIN vocab
                    THEN result \o vocab[toks[k]]
                    ELSE result)

DecodeWith(vocab, toks) == decodeFrom(vocab, toks, 1, <<>>)

----------------------------------------------------------------------------
(* The pieces of Train *)

\* the precondition check with < for <=
invalidTargetStrict(target) == target < NumBytes

\* the precondition check of Train
invalidTarget(target) == target <= NumBytes

\* the loop condition with <= for <
loopConditionInclusive(size, target) == size <= target

\* the condition of the loop of Train
loopCondition(size, target) == size < target

\* the bytes of the two tokens in the wrong order
mergedBytesSwapped(vocab, pair) == vocab[pair[2]] \o vocab[pair[1]]

\* the bytes of the new token: those of the first, then those of the second
mergedBytes(vocab, pair) == vocab[pair[1]] \o vocab[pair[2]]

\* the merge rule with the id that follows the new token's
newMergeNextId(pair, newTokenID) ==
    [First |-> pair[1], Second |-> pair[2], Result |-> newTokenID + 1]

\* the merge rule Train records
newMerge(pair, newTokenID) ==
    [First |-> pair[1], Second |-> pair[2], Result |-> newTokenID]

\* the increment left out
incrementVocabSizeSkipped(size) == size

\* t.VocabSize++
incrementVocabSize(size) == size + 1

----------------------------------------------------------------------------
(* The state machine *)

\* the locals of a call that has not been made
NoTrainLocals ==
    /\ text' = <<>>
    /\ targetVocabSize' = 0
    /\ tokens' = <<>>
    /\ pairCounts' = EmptyMap
    /\ err' = "none"
    /\ entryVocabSize' = VocabSize

NoCallResults ==
    /\ encodeIn' = <<>>
    /\ encodeOut' = <<>>
    /\ decodeIn' = <<>>
    /\ decodeOut' = <<>>

NoApplierArgs ==
    [tokens |-> <<>>, first |-> 0, second |-> 0, merged |-> 0,
     pairCounts |-> "empty"]

NoApplierResults ==
    [done |-> {}, incremental |-> <<>>, pairCounts |-> EmptyMap, plain |-> <<>>]

\* the vocabulary of New() with its loop one byte short
newVocabularyShort == [i \in 0..(NumBytes - 2) |-> <<i>>]

\* the vocabulary of New(): every byte value maps to that one byte
newVocabulary == [i \in 0..(NumBytes - 1) |-> <<i>>]

\* New(), and no call made yet
InitTokenizer ==
    /\ Vocabulary = newVocabulary
    /\ Merges = <<>>
    /\ VocabSize = NumBytes
    /\ pc = "idle"
    /\ op = "New"
    /\ text = <<>>
    /\ targetVocabSize = 0
    /\ tokens = <<>>
    /\ pairCounts = EmptyMap
    /\ err = "none"
    /\ entryVocabSize = NumBytes
    /\ encodeIn = <<>>
    /\ encodeOut = <<>>
    /\ decodeIn = <<>>
    /\ decodeOut = <<>>
    /\ applierOut = NoApplierResults

Init ==
    /\ InitTokenizer
    /\ applierIn = NoApplierArgs

\* Train that starts every training from the vocabulary of New()
TrainFromScratch(b, target) ==
    /\ pc = "idle"
    /\ op' = "Train"
    /\ text' = b
    /\ targetVocabSize' = target
    /\ entryVocabSize' = NumBytes
    /\ IF invalidTarget(target)
       THEN /\ err' = "error"
            /\ pc' = "done"
            /\ UNCHANGED <<tokens, pairCounts, tokenizer>>
       ELSE /\ err' = "none"
            /\ pc' = "loop"
            /\ tokens' = BytesToTokens(b)
            /\ pairCounts' = countPairs(BytesToTokens(b))
            /\ Vocabulary' = newVocabulary
            /\ Merges' = <<>>
            /\ VocabSize' = NumBytes
    /\ UNCHANGED <<callResults, applier>>

\* Train, from the call to the head of the loop (or to the error return)
Train(b, target) ==
    /\ pc = "idle"
    /\ op' = "Train"
    /\ text' = b
    /\ targetVocabSize' = target
    /\ entryVocabSize' = VocabSize
    /\ IF invalidTarget(target)
       THEN /\ err' = "error"
            /\ pc' = "done"
            /\ UNCHANGED <<tokens, pairCounts>>
       ELSE /\ err' = "none"
            /\ pc' = "loop"
            /\ tokens' = BytesToTokens(b)
            /\ pairCounts' = countPairs(BytesToTokens(b))
    /\ UNCHANGED <<tokenizer, callResults, applier>>

\* one iteration of the loop of Train that learns a merge
TrainMerge ==
    /\ pc = "loop"
    /\ loopCondition(VocabSize, targetVocabSize)
    /\ \E r \in findMaxPair(pairCounts) :
         /\ r.count # 0
         /\ LET newTokenID == VocabSize
                applied == applyMergeIncremental(tokens, r.pair[1], r.pair[2],
                                                 newTokenID, pairCounts)
            IN  /\ Vocabulary' = Put(Vocabulary, newTokenID,
                                     mergedBytes(Vocabulary, r.pair))
                /\ Merges' = Append(Merges, newMerge(r.pair, newTokenID))
                /\ tokens' = applied.tokens
                /\ pairCounts' = applied.pairCounts
                /\ VocabSize' = incrementVocabSize(VocabSize)
    /\ UNCHANGED <<pc, op, text, targetVocabSize, err, entryVocabSize,
                   callResults, applier>>

\* Train reporting an error when it runs out of pairs before the target
TrainReturnErrorOnExhaustion ==
    /\ pc = "loop"
    /\ \/ ~loopCondition(VocabSize, targetVocabSize)
       \/ \E r \in findMaxPair(pairCounts) : r.count = 0
    /\ pc' = "done"
    /\ err' = IF loopCondition(VocabSize, targetVocabSize) THEN "error" ELSE "nil"
    /\ UNCHANGED <<tokenizer, op, text, targetVocabSize, tokens, pairCounts,
                   entryVocabSize, callResults, applier>>

\* Train without the break: it returns only when the target is reached
TrainReturnAtTargetOnly ==
    /\ pc = "loop"
    /\ ~loopCondition(VocabSize, targetVocabSize)
    /\ pc' = "done"
    /\ err' = "nil"
    /\ UNCHANGED <<tokenizer, op, text, targetVocabSize, tokens, pairCounts,
                   entryVocabSize, callResults, applier>>

\* the loop of Train ends (target reached, or no pair left) and Train
\* returns nil
TrainReturn ==
    /\ pc = "loop"
    /\ \/ ~loopCondition(VocabSize, targetVocabSize)
       \/ \E r \in findMaxPair(pairCounts) : r.count = 0
    /\ pc' = "done"
    /\ err' = "nil"
    /\ UNCHANGED <<tokenizer, op, text, targetVocabSize, tokens, pairCounts,
                   entryVocabSize, callResults, applier>>

Encode(b) ==
    /\ pc' = "done"
    /\ op' = "Encode"
    /\ encodeIn' = b
    /\ encodeOut' = EncodeWith(Merges, b)
    /\ UNCHANGED <<tokenizer, trainLocals, decodeIn, decodeOut, applier>>

\* Decode with a lookup that stores an empty entry for an id it does not find
DecodeInserting(toks) ==
    /\ pc' = "done"
    /\ op' = "Decode"
    /\ decodeIn' = toks
    /\ decodeOut' = DecodeWith(Vocabulary, toks)
    /\ Vocabulary' = [id \in DOMAIN Vocabulary \cup {toks[k] : k \in 1..Len(toks)} |->
                         IF id \in DOMAIN Vocabulary THEN Vocabulary[id] ELSE <<>>]
    /\ UNCHANGED <<Merges, VocabSize, trainLocals, encodeIn, encodeOut, applier>>

Decode(toks) ==
    /\ pc' = "done"
    /\ op' = "Decode"
    /\ decodeIn' = toks
    /\ decodeOut' = DecodeWith(Vocabulary, toks)
    /\ UNCHANGED <<tokenizer, trainLocals, encodeIn, encodeOut, applier>>

\* the caller is done with the result of the last call
Return ==
    /\ pc = "done"
    /\ pc' = "idle"
    /\ NoTrainLocals
    /\ NoCallResults
    /\ UNCHANGED <<tokenizer, op, applier>>

TrainCall == \E b \in Texts, target \in Targets : Train(b, target)

\* Encode(text) for a text of the caller's choice
EncodeCall == pc = "idle" /\ \E b \in Texts : Encode(b)

\* Encode(trainText) right after Train(trainText, target), as
\* TestTrainAndEncode calls it
EncodeTrainText == pc = "done" /\ op = "Train" /\ err = "nil" /\ Encode(text)

\* Decode(tokens) for tokens of the caller's choice
DecodeCall == pc = "idle" /\ \E toks \in DecodeArgs : Decode(toks)

\* Decode(Encode(text)), as the tests call it
DecodeEncoded == pc = "done" /\ op = "Encode" /\ Decode(encodeOut)

Next ==
    \/ TrainCall
    \/ TrainMerge
    \/ TrainReturn
    \/ EncodeCall
    \/ EncodeTrainText
    \/ DecodeCall
    \/ DecodeEncoded
    \/ Return

Spec == Init /\ [][Next]_vars

\* Train calls only.  Train is a synchronous call: once called, its loop
\* runs on until it returns
NextTrain ==
    \/ TrainCall
    \/ TrainMerge
    \/ TrainReturn
    \/ Return

SpecLive ==
    Init /\ [][NextTrain]_vars /\ WF_vars(TrainMerge) /\ WF_vars(TrainReturn)

----------------------------------------------------------------------------
(* The tests: each trains a tokenizer fresh from New() *)

TestTrainCall ==
    /\ Merges = <<>>
    /\ \E b \in TestTexts, target \in TestTargets : Train(b, target)

TestEncodeCall == pc = "idle" /\ \E b \in TestTexts \cup Texts : Encode(b)

NextTests ==
    \/ TestTrainCall
    \/ TrainMerge
    \/ TrainReturn
    \/ TestEncodeCall
    \/ EncodeTrainText
    \/ DecodeCall
    \/ DecodeEncoded
    \/ Return

SpecTests == Init /\ [][NextTests]_vars

----------------------------------------------------------------------------
(* The two merge appliers, called directly on arbitrary arguments *)

\* the map handed to applyMergeIncremental: the counts of the tokens, or an
\* empty map
ApplierMap(args) ==
    IF args.pairCounts = "counted" THEN countPairs(args.tokens) ELSE EmptyMap

InitApplier ==
    /\ InitTokenizer
    /\ applierIn \in ApplierArgs

CallApplyMergeIncremental ==
    /\ "incremental" \notin applierOut.done
    /\ LET a == applierIn
           r == applyMergeIncremental(a.tokens, a.first, a.second, a.merged,
                                      ApplierMap(a))
       IN  applierOut' = [applierOut EXCEPT !.done = @ \cup {"incremental"},
                                            !.incremental = r.tokens,
                                            !.pairCounts = r.pairCounts]
    /\ UNCHANGED <<tokenizer, pc, op, trainLocals, callResults, applierIn>>

CallApplyMerge ==
    /\ "plain" \notin applierOut.done
    /\ LET a == applierIn
       IN  applierOut' = [applierOut EXCEPT !.done = @ \cup {"plain"},
                                            !.plain = applyMerge(a.tokens, a.first,
                                                                 a.second, a.merged)]
    /\ UNCHANGED <<tokenizer, pc, op, trainLocals, callResults, applierIn>>

NextApplier ==
    \/ CallApplyMergeIncremental
    \/ CallApplyMerge

SpecApplier == InitApplier /\ [][NextApplier]_vars

----------------------------------------------------------------------------
(* The appliers called directly, next to the tests that train with them *)

InitOverlap ==
    /\ InitTokenizer
    /\ applierIn \in ApplierArgs \cup {NoApplierArgs}

NextOverlap ==
    \/ applierIn \in ApplierArgs /\ NextApplier
    \/ applierIn = NoApplierArgs /\ NextTests

SpecOverlap == InitOverlap /\ [][NextOverlap]_vars

----------------------------------------------------------------------------
(* Properties *)

TrainReturned == pc = "done" /\ op = "Train" /\ err = "nil"

Max(a, b) == IF a >= b THEN a ELSE b

\* C1: round trip.  Whatever Train calls came before, decoding the tokens
\* that Encode returned for a text gives back exactly that text.
RoundTrip ==
    (pc = "done" /\ op = "Decode" /\ decodeIn = encodeOut) => decodeOut = encodeIn

\* a text that Encode shortened by learned merges was decoded back
RoundTripWitness ==
    /\ pc = "done" /\ op = "Decode"
    /\ decodeIn = encodeOut
    /\ Len(encodeOut) < Len(encodeIn)
    /\ \E i \in 1..Len(encodeOut) : encodeOut[i] > NumBytes
    /\ decodeOut = encodeIn

\* the number of positions of toks at which the pair p stands
PairOccurrences(toks, p) ==
    Cardinality({i \in 1..(Len(toks) - 1) : toks[i] = p[1] /\ toks[i + 1] = p[2]})

AdjacentPairs(toks) == { <<toks[i], toks[i + 1]>> : i \in 1..(Len(toks) - 1) }

\* C2: pair-frequency invariant.  At the head of the loop of Train (after
\* countPairs and after every applyMergeIncremental) the count of every pair
\* in the map is the number of its occurrences in the token sequence, every
\* pair of the sequence is counted, and no key has a count of 0 or less.
PairFrequencyInvariant ==
    pc = "loop" =>
        /\ \A p \in DOMAIN pairCounts \cup AdjacentPairs(tokens) :
               Get(pairCounts, p) = PairOccurrences(tokens, p)
        /\ \A p \in DOMAIN pairCounts : pairCounts[p] > 0

\* a pair (a, a) was merged at two adjacent sites, and pairs are left
PairFrequencyWitness ==
    /\ pc = "loop"
    /\ Merges # <<>>
    /\ Merges[Len(Merges)].First = Merges[Len(Merges)].Second
    /\ \E i \in 1..(Len(tokens) - 1) :
           tokens[i] = Merges[Len(Merges)].Result /\ tokens[i + 1] = tokens[i]
    /\ DOMAIN pairCounts # {}

\* C3 as claimed: after Train returns nil, VocabSize <= target, for every
\* tokenizer the call starts from.
VocabSizeAtMostTarget == TrainReturned => VocabSize <= targetVocabSize

\* C3, amended: after Train returns nil, VocabSize is at most the larger of
\* the target and the VocabSize the call began with.
VocabSizeAtMostTargetOrEntry ==
    TrainReturned => VocabSize <= Max(targetVocabSize, entryVocabSize)

\* a second Train call grew an already trained tokenizer up to its target
VocabSizeBoundWitness ==
    /\ TrainReturned
    /\ entryVocabSize > NumBytes
    /\ VocabSize > entryVocabSize
    /\ VocabSize = targetVocabSize

\* C4: target reached unless exhausted.  When Train returns nil on a fresh
\* tokenizer, VocabSize is the target or at most one token is left.
TargetReachedUnlessExhausted ==
    (TrainReturned /\ entryVocabSize = NumBytes) =>
        (VocabSize = targetVocabSize \/ Len(tokens) <= 1)

\* training stopped short of the target with the text merged into one token
ExhaustedWitness ==
    /\ TrainReturned
    /\ entryVocabSize = NumBytes
    /\ VocabSize < targetVocabSize
    /\ Len(text) >= 3
    /\ Len(tokens) = 1

\* C5: merge count.  Outside of a Train call the merge table has
\* VocabSize - 256 entries.
MergeCount == pc # "loop" => Len(Merges) = VocabSize - NumBytes

\* two Train calls that both learned merges have returned
MergeCountWitness ==
    /\ TrainReturned
    /\ entryVocabSize > NumBytes
    /\ VocabSize > entryVocabSize
    /\ Len(Merges) >= 3

\* C6: merge-rule ids.  The k-th rule of the table (counting from 0) has
\* Result 256 + k, and its Result is greater than its First and its Second.
MergeRuleIds ==
    \A k \in 1..Len(Merges) :
        /\ Merges[k].Result = NumBytes + (k - 1)
        /\ Merges[k].Result > Merges[k].First
        /\ Merges[k].Result > Merges[k].Second

\* a rule whose operands are merged tokens themselves has been learned
MergeRuleIdsWitness ==
    /\ Len(Merges) >= 3
    /\ \E k \in 1..Len(Merges) :
           Merges[k].First >= NumBytes /\ Merges[k].Second >= NumBytes

\* a step that is a call of Train
IsTrainCall == pc = "idle" /\ pc' # "idle" /\ op' = "Train"

\* C7: invalid target.  A Train call with target <= 256 returns an error at
\* once and leaves Vocabulary, Merges and VocabSize as they were.
InvalidTargetRejected ==
    [][(IsTrainCall /\ targetVocabSize' <= NumBytes) =>
          (pc' = "done" /\ err' = "error" /\ UNCHANGED tokenizer)]_vars

\* a trained tokenizer has rejected a target of exactly 256
InvalidTargetWitness ==
    /\ pc = "done" /\ op = "Train" /\ err = "error"
    /\ targetVocabSize = NumBytes
    /\ text # <<>>
    /\ Merges # <<>>

\* C8: applier equivalence.  On the same tokens, pair and merged id,
\* applyMergeIncremental (whatever map it is given) and applyMerge return
\* the same token sequence.
ApplierEquivalence ==
    applierOut.done = {"incremental", "plain"} =>
        applierOut.incremental = applierOut.plain

\* both appliers ran on tokens with overlapping occurrences of a pair (a, a),
\* and the incremental one changed its map
ApplierEquivalenceWitness ==
    /\ applierOut.done = {"incremental", "plain"}
    /\ applierIn.first = applierIn.second
    /\ \E i \in 1..(Len(applierIn.tokens) - 2) :
           /\ applierIn.tokens[i] = applierIn.first
           /\ applierIn.tokens[i + 1] = applierIn.first
           /\ applierIn.tokens[i + 2] = applierIn.first
    /\ Len(applierOut.plain) < Len(applierIn.tokens)
    /\ applierOut.pairCounts # ApplierMap(applierIn)

\* C9: TestTrainSimple.  Training a fresh tokenizer on "aaabdaaabac" to 260
\* learns 4 merges, ends with VocabSize 260, and the first merge is
\* (97, 97, 256), however ties are broken.
TrainSimpleScenario ==
    (/\ TrainReturned
     /\ entryVocabSize = NumBytes
     /\ text = TrainSimpleText
     /\ targetVocabSize = TrainSimpleTarget)
    => /\ Len(Merges) = 4
       /\ VocabSize = TrainSimpleTarget
       /\ Merges[1] = [First |-> 97, Second |-> 97, Result |-> NumBytes]

\* the scenario has returned, the tie of the second round broken for (a, b)
TrainSimpleWitness ==
    /\ TrainReturned
    /\ entryVocabSize = NumBytes
    /\ text = TrainSimpleText
    /\ targetVocabSize = TrainSimpleTarget
    /\ Merges[2] = [First |-> 97, Second |-> 98, Result |-> NumBytes + 1]

RECURSIVE Flatten(_)
Flatten(ss) == IF ss = <<>> THEN <<>> ELSE Head(ss) \o Flatten(Tail(ss))

\* the bytes of the ids of toks that have a vocabulary entry, in order
KnownBytes(toks) ==
    LET Known(id) == id \in DOMAIN Vocabulary
        known == SelectSeq(toks, Known)
    IN  Flatten([i \in 1..Len(known) |-> Vocabulary[known[i]]])

\* C10: Decode drops unknown ids.  Decode returns the bytes of the ids that
\* have a vocabulary entry, in input order; the other ids add nothing, and
\* Decode([999999]) is empty.
DecodeDropsUnknown ==
    (pc = "done" /\ op = "Decode") =>
        /\ decodeOut = KnownBytes(decodeIn)
        /\ (decodeIn = <<InvalidToken>> => decodeOut = <<>>)

\* an unknown id in front of a merged token was dropped
DecodeDropsUnknownWitness ==
    /\ pc = "done" /\ op = "Decode"
    /\ Len(decodeIn) = 2
    /\ decodeIn[1] = InvalidToken
    /\ decodeIn[2] = NumBytes
    /\ Len(decodeOut) = 2

\* C11: base identity.  While no merge has been learned, Encode returns as
\* many tokens as the text has bytes, the i-th token being the i-th byte;
\* the empty text gives no tokens.
BaseIdentity ==
    (pc = "done" /\ op = "Encode" /\ Merges = <<>>) =>
        /\ Len(encodeOut) = Len(encodeIn)
        /\ \A i \in 1..Len(encodeIn) : encodeOut[i] = encodeIn[i]
        /\ (encodeIn = <<>> => encodeOut = <<>>)

\* a text with a repeated pair was encoded by a tokenizer without merges
BaseIdentityWitness ==
    /\ pc = "done" /\ op = "Encode"
    /\ Merges = <<>>
    /\ encodeIn = <<97, 98, 97, 98>>
    /\ Len(encodeOut) = 4

\* steps that are a call of Encode, of Decode
IsEncodeCall == pc' = "done" /\ op' = "Encode" /\ (pc = "idle" \/ op = "Train")
IsDecodeCall == pc' = "done" /\ op' = "Decode" /\ (pc = "idle" \/ op = "Encode")

\* C12: Encode and Decode are read-only.  No call of Encode or Decode
\* changes Vocabulary, Merges or VocabSize, in whatever order they are called.
EncodeDecodeReadOnly ==
    [][(IsEncodeCall \/ IsDecodeCall) => UNCHANGED tokenizer]_vars

\* on a trained tokenizer, Decode has run right after Encode, on its result
EncodeDecodeReadOnlyWitness ==
    /\ pc = "done" /\ op = "Decode"
    /\ Len(Merges) >= 2
    /\ Len(encodeIn) >= 2
    /\ decodeIn = encodeOut

\* C13: pair exhaustion is not an error.  A Train call with a valid target
\* on a text of at most one byte returns nil and leaves the tokenizer as it
\* was; a Train call with a valid target that returns below its target
\* returns nil, with fewer than target - 256 merges.
ExhaustionIsNoError ==
    [][/\ (pc = "loop" /\ Len(text) <= 1) =>
              (pc' = "done" /\ err' = "nil" /\ UNCHANGED tokenizer)
       /\ (pc = "loop" /\ pc' = "done" /\ VocabSize' < targetVocabSize') =>
              (err' = "nil" /\ Len(Merges') < targetVocabSize' - NumBytes)]_vars

\* Train of a one-byte text returned nil on a tokenizer that had merges,
\* below its target
ExhaustionWitness ==
    /\ pc = "done" /\ op = "Train"
    /\ err = "nil"
    /\ Len(text) = 1
    /\ entryVocabSize > NumBytes
    /\ VocabSize = entryVocabSize
    /\ VocabSize < targetVocabSize

\* C14: every id has a vocabulary entry.  Outside of a Train call the keys
\* of Vocabulary are 0..VocabSize-1, every id of a merge rule is among them,
\* and so is every token Encode returns.
EveryIdHasEntry ==
    pc # "loop" =>
        /\ DOMAIN Vocabulary = 0..(VocabSize - 1)
        /\ \A k \in 1..Len(Merges) :
               {Merges[k].First, Merges[k].Second, Merges[k].Result}
                   \subseteq DOMAIN Vocabulary
        /\ (pc = "done" /\ op = "Encode") =>
               \A i \in 1..Len(encodeOut) : encodeOut[i] \in DOMAIN Vocabulary

\* Encode returned a token that a merge of merged tokens had produced
EveryIdHasEntryWitness ==
    /\ pc = "done" /\ op = "Encode"
    /\ Len(Merges) >= 2
    /\ \E i \in 1..Len(encodeOut) : encodeOut[i] > NumBytes
    /\ Len(encodeOut) >= 2

\* a step of Train that learns a merge
IsTrainMerge == pc = "loop" /\ pc' = "loop" /\ Len(Merges') = Len(Merges) + 1

\* C15: greedy selection.  The pair of every merge rule has, when it is
\* chosen, a count of at least 1 that no other count in the map exceeds, and
\* it is a most frequent adjacent pair of the token sequence; at the loop
\* head findMaxPair returns count 0 exactly when the map is empty.
GreedySelection ==
    [][pc = "loop" =>
         /\ \A r \in findMaxPair(pairCounts) :
                r.count = 0 <=> DOMAIN pairCounts = {}
         /\ IsTrainMerge =>
                LET rule == Merges'[Len(Merges')]
                    p == <<rule.First, rule.Second>>
                IN  /\ p \in DOMAIN pairCounts
                    /\ pairCounts[p] >= 1
                    /\ \A q \in DOMAIN pairCounts : pairCounts[q] <= pairCounts[p]
                    /\ \A q \in AdjacentPairs(tokens) :
                           PairOccurrences(tokens, q) <= PairOccurrences(tokens, p)]_vars

\* the first merge of a Train call took a pair that occurs more often in the
\* text than another pair of the text
GreedySelectionWitness ==
    /\ pc = "loop"
    /\ Len(Merges) = entryVocabSize - NumBytes + 1
    /\ LET rule == Merges[Len(Merges)]
           p == <<rule.First, rule.Second>>
           t0 == BytesToTokens(text)
       IN  /\ PairOccurrences(t0, p) >= 2
           /\ \E q \in AdjacentPairs(t0) :
                  PairOccurrences(t0, q) < PairOccurrences(t0, p)

\* out with every merged id replaced by first, second
RECURSIVE Expand(_, _, _, _)
Expand(out, first, second, merged) ==
    IF out = <<>>
    THEN <<>>
    ELSE (IF Head(out) = merged THEN <<first, second>> ELSE <<Head(out)>>)
             \o Expand(Tail(out), first, second, merged)

\* the position in the input at which the j-th token of out begins
InputPosition(out, first, second, merged, j) ==
    1 + Len(Expand(SubSeq(out, 1, j - 1), first, second, merged))

\* out is the input with its leftmost non-overlapping occurrences of
\* (first, second) merged, each input token in at most one merge
LeftmostMerged(a, out) ==
    (\A k \in 1..Len(a.tokens) : a.tokens[k] # a.merged) =>
        /\ Expand(out, a.first, a.second, a.merged) = a.tokens
        /\ \A j \in 1..(Len(out) - 1) :
               ~(out[j] = a.first /\ out[j + 1] = a.second)
        /\ \A j \in 1..Len(out) :
               out[j] # a.merged =>
                   LET i == InputPosition(out, a.first, a.second, a.merged, j)
                   IN  ~(/\ i < Len(a.tokens)
                         /\ a.tokens[i] = a.first
                         /\ a.tokens[i + 1] = a.second)
        /\ (a.tokens = <<97, 97, 97>> /\ a.first = 97 /\ a.second = 97) =>
               out = <<a.merged, 97>>

\* C16: no double merge.  One pass of either applier, with a merged id that
\* is not in the input, merges the leftmost non-overlapping occurrences:
\* expanding the merged ids gives back the input and no (first, second) is
\* left; (a, a) on "aaa" gives [merged, a], and training "aaa" to 258 learns
\* 2 merges, the first of them (97, 97).
NoDoubleMerge ==
    /\ "incremental" \in applierOut.done =>
           LeftmostMerged(applierIn, applierOut.incremental)
    /\ "plain" \in applierOut.done =>
           LeftmostMerged(applierIn, applierOut.plain)
    /\ (/\ TrainReturned
        /\ entryVocabSize = NumBytes
        /\ text = MergeOrderText
        /\ targetVocabSize = MergeOrderTarget)
       => /\ Len(Merges) = 2
          /\ Merges[1].First = 97
          /\ Merges[1].Second = 97

\* both appliers have run (a, a) over "aaa"
NoDoubleMergeWitness ==
    /\ applierOut.done = {"incremental", "plain"}
    /\ applierIn.tokens = <<97, 97, 97>>
    /\ applierIn.first = 97
    /\ applierIn.second = 97
    /\ applierIn.merged = NumBytes + 1
    /\ applierOut.plain = <<NumBytes + 1, 97>>

\* s is a prefix of t
IsPrefix(s, t) == Len(s) <= Len(t) /\ SubSeq(t, 1, Len(s)) = s

\* C17: append-only growth.  No step makes VocabSize smaller, shortens or
\* rewrites the merge table, removes a vocabulary entry or changes the bytes
\* of an id that has an entry.
AppendOnly ==
    [][/\ VocabSize' >= VocabSize
       /\ IsPrefix(Merges, Merges')
       /\ \/ Vocabulary' = Vocabulary
          \/ /\ DOMAIN Vocabulary \subseteq DOMAIN Vocabulary'
             /\ \A id \in DOMAIN Vocabulary : Vocabulary'[id] = Vocabulary[id]]_vars

\* a later Train call is adding merges to those of an earlier one
AppendOnlyWitness ==
    /\ pc = "loop"
    /\ entryVocabSize > NumBytes
    /\ VocabSize > entryVocabSize
    /\ Len(tokens) >= 2

\* C19: Encode replays training.  After one successful Train on a fresh
\* tokenizer, Encode of the training text returns the token sequence the
\* loop of Train ended with.
EncodeReplaysTraining ==
    (/\ pc = "done" /\ op = "Encode"
     /\ err = "nil"
     /\ entryVocabSize = NumBytes
     /\ encodeIn = text)
    => encodeOut = tokens

\* the training text was encoded after two merges, the second of them on a
\* token of the first
EncodeReplaysTrainingWitness ==
    /\ pc = "done" /\ op = "Encode"
    /\ err = "nil"
    /\ entryVocabSize = NumBytes
    /\ encodeIn = text
    /\ Len(Merges) >= 2
    /\ Merges[2].First = NumBytes
    /\ Len(encodeOut) >= 2

\* C20: no count underflow.  In every merge step of Train, each
\* decrementPair of applyMergeIncremental finds a count of at least 1: the
\* delete at a count <= 0 never hides a missing key or a negative count.
NoCountUnderflow ==
    [][IsTrainMerge =>
         LET rule == Merges'[Len(Merges')]
         IN  ~applyMergeIncremental(tokens, rule.First, rule.Second,
                                    rule.Result, pairCounts).underflow]_vars

\* a merge of (a, a) at touching sites has decremented the pair to its left,
\* the pair itself and the pair to its right
NoCountUnderflowWitness ==
    /\ pc = "loop"
    /\ text = <<97, 97, 97, 97, 97>>
    /\ Len(Merges) = entryVocabSize - NumBytes + 1
    /\ Len(tokens) = 3
    /\ tokens[1] = tokens[2]
    /\ tokens[3] = 97

\* the merges the current Train call has learned
Iterations == Len(Merges) - (entryVocabSize - NumBytes)

\* every iteration adds one vocabulary entry and one merge rule and adds 1
\* to VocabSize
IterationAddsOne ==
    [][(pc = "loop" /\ pc' = "loop") =>
          /\ VocabSize' = VocabSize + 1
          /\ Len(Merges') = Len(Merges) + 1
          /\ VocabSize \notin DOMAIN Vocabulary
          /\ DOMAIN Vocabulary' = DOMAIN Vocabulary \cup {VocabSize}]_vars

\* C18 as claimed, its safety half: a Train call with a valid target makes
\* at most target - VocabSize_at_entry iterations and ends at the target
\* size or with no pair left.
TrainWithinTargetIterations ==
    (op = "Train" /\ pc \in {"loop", "done"} /\ targetVocabSize > NumBytes) =>
        /\ Iterations <= targetVocabSize - entryVocabSize
        /\ pc = "done" =>
               (err = "nil" /\ (VocabSize = targetVocabSize \/ Len(tokens) <= 1))

\* C18, amended: every Train call with a valid target returns, after at most
\* max(0, target - VocabSize_at_entry) iterations, each adding one
\* vocabulary entry and one merge rule and 1 to VocabSize; it returns nil, at
\* the target size, with no pair left, or at once when VocabSize was already
\* above the target.
TrainingTerminates ==
    /\ (pc = "loop") ~> (pc = "done")
    /\ IterationAddsOne
    /\ [](( op = "Train" /\ pc \in {"loop", "done"} /\ targetVocabSize > NumBytes) =>
            /\ Iterations <= Max(0, targetVocabSize - entryVocabSize)
            /\ pc = "done" =>
                   /\ err = "nil"
                   /\ \/ VocabSize = targetVocabSize
                      \/ Len(tokens) <= 1
                      \/ (entryVocabSize > targetVocabSize /\ Iterations = 0))

\* a Train call on a trained tokenizer returned after two iterations, at its
\* target
TrainingTerminatesWitness ==
    /\ pc = "done" /\ op = "Train"
    /\ err = "nil"
    /\ entryVocabSize > NumBytes
    /\ Iterations = 2
    /\ VocabSize = targetVocabSize
    /\ Len(tokens) >= 2

====
